---- MODULE Spec2Model ----
(***************************************************************************)
(* A model of duffle's bundle export (pkg/packager/export.go), of the      *)
(* bundle loading front end (cmd/duffle: getLoader, loadBundle) and of the *)
(* docker image digester (pkg/imagebuilder/docker/digester).               *)
(*                                                                         *)
(* Strings whose characters matter (image references, artifact file        *)
(* names) are sequences of one-character strings; other strings are TLA+   *)
(* strings.                                                                *)
(***************************************************************************)
EXTENDS Naturals, Integers, Sequences, FiniteSets, TLC

\* ------------------------------------------------------------------ bounds
\* Largest number of entries of Bundle.Images.
MaxImages == 1

\* Largest length of Bundle.InvocationImages.
MaxInvocationImages == 1

\* Image references a bundle may name: "a/b", "a:b" and "c".
Refs == { <<"a", "/", "b">>, <<"a", ":", "b">>, <<"c">> }

\* Keys of the Bundle.Images map.
ImageKeys == 1..MaxImages

\* Key rings the secret key ring file may hold, and the --user values.
KeyRings == { <<>>, <<"k1">>, <<"k1", "k2">> }
Signers == { "", "k2", "k9" }

\* Values of Exporter.Destination.
Destinations == { "", "out.tgz" }

\* ------------------------------------------------------- export: the state
VARIABLES
    runs,        \* the Export calls in progress (identities)
    keyring,     \* the keys of the file Exporter.SecretKeyRing names, in order
    source,      \* the bundle the file Exporter.Source describes
    ex,          \* ex[r]: the Exporter's fields Thin, Unsigned, Destination, Signer
    pc,          \* pc[r]: where Export is
    bun,         \* bun[r]: the *bundle.Bundle Export holds (NoBundle before Load)
    loc,         \* loc[r]: prepareArtifacts' locals
    cleanup,     \* cleanup[r]: defer os.RemoveAll(archiveDir) is registered
    ret,         \* ret[r]: what Export returned
    staging,     \* the directory <name>-<version>-export
    destFiles,   \* the archive files written, by path
    logs,        \* logs[r]: the per-run log file
    pulled,      \* pulled[r]: the Client.ImagePull calls made, in order
    saved,       \* saved[r]: the Client.ImageSave calls made, in order
    \* ---------------------------------------------------- loadBundle: state
    lbIn,        \* the input of loadBundle: file, key ring, insecure flag
    lbOut,       \* what loadBundle returned
    \* -------------------------------------------------- Digester.Digest: state
    dgImage,     \* Digester.Image
    dgPc,        \* where Digest is
    dgReader,    \* the reader ImageSave returned: <<>> for nil, or << stream >>
    dgErr,       \* the err variable of Digest
    dgDefer,     \* defer reader.Close() is registered
    dgOpen,      \* the streams ImageSave opened that are not closed
    dgCalls,     \* the number of Digest calls started
    dgRet        \* what the last Digest call returned

exportVars == << runs, keyring, source, ex, pc, bun, loc, cleanup, ret, staging,
                 destFiles, logs, pulled, saved >>
loadVars == << lbIn, lbOut >>
digestVars == << dgImage, dgPc, dgReader, dgErr, dgDefer, dgOpen, dgCalls, dgRet >>
vars == << exportVars, loadVars, digestVars >>

\* ------------------------------------------------------------ export: data
EmptyMap == [ x \in {} |-> x ]

NoBundle == [ Name |-> "", Version |-> "", Images |-> EmptyMap, InvocationImages |-> <<>> ]

\* bundle.Image / bundle.InvocationImage before export: Digest is empty.
NewImage(ref) == [ Image |-> ref, Digest |-> "" ]

SeqsUpTo(S, n) == UNION { [ 1..k -> S ] : k \in 0..n }

MapsOver(K, S) == UNION { [ D -> S ] : D \in SUBSET K }

Bundles ==
    { [ Name |-> "app", Version |-> "1.0.0",
        Images |-> [ k \in DOMAIN m |-> NewImage(m[k]) ],
        InvocationImages |-> [ i \in DOMAIN s |-> NewImage(s[i]) ] ] :
      m \in MapsOver(ImageKeys, Refs), s \in SeqsUpTo(Refs, MaxInvocationImages) }

Exporters ==
    [ Thin : BOOLEAN, Unsigned : BOOLEAN, Destination : Destinations, Signer : Signers ]

NoErr == [ site |-> "none", image |-> <<>> ]

Err(site) == [ site |-> site, image |-> <<>> ]

ImageErr(site, image) == [ site |-> site, image |-> image ]

NoStaging ==
    [ exists |-> FALSE, descriptor |-> EmptyMap, artifactsDir |-> FALSE,
      artifacts |-> EmptyMap ]

NoLocals ==
    [ todo |-> {}, imagesWithShasums |-> EmptyMap, idx |-> 1,
      invocationImagesWithShasums |-> <<>> ]

\* strings.Replace(s, old, new, -1) for a one-character old.
Replace(s, old, new) == [ i \in DOMAIN s |-> IF s[i] = old THEN new ELSE s[i] ]

buildFileName(uri) == Replace(Replace(uri, "/", "-"), ":", "-")

\* name := buildFileName(image) + ".tar"
ArtifactName(image) == buildFileName(image) \o << ".tar" >>

\* bundlefile := "bundle.cnab"; if ex.Unsigned { bundlefile = "bundle.json" }
bundlefile(r) == IF ex[r].Unsigned THEN "bundle.json" ELSE "bundle.cnab"

\* name := bun.Name + "-" + bun.Version
name(r) == << bun[r].Name, "-", bun[r].Version >>

\* dest := name + ".tgz"; if ex.Destination != "" { dest = ex.Destination }
dest(r) == IF ex[r].Destination # "" THEN << ex[r].Destination >> ELSE name(r) \o << ".tgz" >>

\* A checksum that was never computed.
tempchecksumEmpty == ""

\* checksum := "tempchecksum"
tempchecksum == "tempchecksum"

\* RemoveAll called on the error returns only, not deferred: the return after
\* the archive is written leaves the directory.
RunDeferredOnErrorOnly(r, st) == IF cleanup[r] /\ pc[r] # "tar" THEN NoStaging ELSE st

\* The deferred os.RemoveAll(archiveDir), applied to the directory as the
\* returning step leaves it.
RunDeferred(r, st) == IF cleanup[r] THEN NoStaging ELSE st

\* A return of Export: the result, and the deferred calls.
Return(r, res, e, st) ==
    /\ pc' = [ pc EXCEPT ![r] = "done" ]
    /\ ret' = [ ret EXCEPT ![r] = [ result |-> res, err |-> e ] ]
    /\ staging' = RunDeferred(r, st)

Goto(r, to) ==
    /\ pc' = [ pc EXCEPT ![r] = to ]
    /\ UNCHANGED ret

\* ------------------------------------------------------------ export: Init
InitExport(R, B, X) ==
    /\ runs = R
    /\ keyring \in KeyRings
    /\ source \in B
    /\ ex \in [ R -> X ]
    /\ pc = [ r \in R |-> "start" ]
    /\ bun = [ r \in R |-> NoBundle ]
    /\ loc = [ r \in R |-> NoLocals ]
    /\ cleanup = [ r \in R |-> FALSE ]
    /\ ret = [ r \in R |-> [ result |-> "", err |-> NoErr ] ]
    /\ staging = NoStaging
    /\ destFiles = EmptyMap
    /\ logs = [ r \in R |-> [ created |-> FALSE, text |-> <<>> ] ]
    /\ pulled = [ r \in R |-> <<>> ]
    /\ saved = [ r \in R |-> <<>> ]


\* --------------------------------------------------------- export: actions
\* logsf, err := os.Create(ex.Logs); if err != nil { return err }
CreateLog(r) ==
    /\ pc[r] = "start"
    /\ \E ok \in BOOLEAN :
        IF ok
        THEN /\ logs' = [ logs EXCEPT ![r].created = TRUE ]
             /\ Goto(r, "stat")
             /\ UNCHANGED staging
        ELSE /\ Return(r, "err", Err("log"), staging)
             /\ UNCHANGED logs
    /\ UNCHANGED << runs, keyring, source, ex, bun, loc, cleanup, destFiles, pulled, saved >>
    /\ UNCHANGED << loadVars, digestVars >>

\* fi, err := os.Stat(ex.Source): the file is missing, is a directory, is a
\* regular file, or Stat fails otherwise and fi is nil, so fi.IsDir() panics.
StatSource(r) ==
    /\ pc[r] = "stat"
    /\ \E st \in { "file", "notexist", "dir", "error" } :
        CASE st = "file" -> Goto(r, "load") /\ UNCHANGED staging
          [] st = "notexist" -> Return(r, "err", Err("stat"), staging)
          [] st = "dir" -> Return(r, "err", Err("isdir"), staging)
          [] st = "error" -> Return(r, "panic", Err("nilfi"), staging)
    /\ UNCHANGED << runs, keyring, source, ex, bun, loc, cleanup, destFiles, logs, pulled, saved >>
    /\ UNCHANGED << loadVars, digestVars >>

\* The loader's error noted but not returned: Export goes on with the bundle
\* as it was read.
LoadFailedIgnored(r) ==
    /\ pc' = [ pc EXCEPT ![r] = "mkdir" ]
    /\ ret' = [ ret EXCEPT ![r] = [ result |-> "", err |-> Err("load") ] ]
    /\ bun' = [ bun EXCEPT ![r] = source ]
    /\ UNCHANGED staging

\* The error branch of bun, err := ex.Loader.Load(ex.Source).
LoadFailed(r) ==
    /\ Return(r, "err", Err("load"), staging)
    /\ UNCHANGED bun

\* bun, err := ex.Loader.Load(ex.Source)
Load(r) ==
    /\ pc[r] = "load"
    /\ \E ok \in BOOLEAN :
        IF ok
        THEN /\ bun' = [ bun EXCEPT ![r] = source ]
             /\ Goto(r, "mkdir")
             /\ UNCHANGED staging
        ELSE LoadFailed(r)
    /\ UNCHANGED << runs, keyring, source, ex, loc, cleanup, destFiles, logs, pulled, saved >>
    /\ UNCHANGED << loadVars, digestVars >>

\* archiveDir, err := filepath.Abs(name + "-export"); os.MkdirAll(archiveDir);
\* defer os.RemoveAll(archiveDir). MkdirAll succeeds on a directory that exists.
MkdirStaging(r) ==
    /\ pc[r] = "mkdir"
    /\ \E out \in { "absErr", "mkdirErr", "ok" } :
        IF out = "ok"
        THEN /\ staging' = [ staging EXCEPT !.exists = TRUE ]
             /\ cleanup' = [ cleanup EXCEPT ![r] = TRUE ]
             /\ Goto(r, "copy")
        ELSE /\ Return(r, "err", Err(out), staging)
             /\ UNCHANGED cleanup
    /\ UNCHANGED << runs, keyring, source, ex, bun, loc, destFiles, logs, pulled, saved >>
    /\ UNCHANGED << loadVars, digestVars >>

\* What io.Copy(to, from) leaves in the staged descriptor file: the bytes of
\* the source. The file is opened without O_TRUNC, so over a longer file that
\* another writer left there the result may keep that file's tail.
CopiedDescriptor(whole) ==
    [ from |-> "source", bundle |-> source, key |-> "", complete |-> whole ]

\* from, err := os.Open(ex.Source); to, err := os.OpenFile(archiveDir/bundlefile,
\* O_RDWR|O_CREATE); io.Copy(to, from); to.Close(); then thin or thick.
CopyDescriptor(r) ==
    /\ pc[r] = "copy"
    /\ \E out \in { "openErr", "openFileErr", "copyErr", "ok" }, whole \in BOOLEAN :
        /\ out \in { "copyErr", "ok" } => staging.exists
        /\ out = "copyErr" => ~whole
        /\ (out = "ok" /\ ~whole) =>
              /\ bundlefile(r) \in DOMAIN staging.descriptor
              /\ staging.descriptor[bundlefile(r)].from = "writeBundle"
        /\ out \in { "openErr", "openFileErr" } => whole
        /\ LET st == IF out \in { "copyErr", "ok" }
                     THEN [ staging EXCEPT !.descriptor =
                              [ f \in DOMAIN staging.descriptor \cup { bundlefile(r) } |->
                                  IF f = bundlefile(r)
                                  THEN CopiedDescriptor(whole)
                                  ELSE staging.descriptor[f] ] ]
                     ELSE staging
           IN  IF out = "ok"
               THEN /\ staging' = st
                    /\ Goto(r, IF ex[r].Thin THEN "dest" ELSE "artifacts")
               ELSE Return(r, "err", Err(out), st)
    /\ UNCHANGED << runs, keyring, source, ex, bun, loc, cleanup, destFiles, logs, pulled, saved >>
    /\ UNCHANGED << loadVars, digestVars >>

\* prepareArtifacts' error noted but not returned: Export goes on to write
\* the archive.
PrepareArtifactsFailedIgnored(r, e, st) ==
    /\ pc' = [ pc EXCEPT ![r] = "dest" ]
    /\ ret' = [ ret EXCEPT ![r] = [ result |-> "", err |-> e ] ]
    /\ staging' = st

\* The error branch of ex.prepareArtifacts(bun, archiveDir, logsf) in Export:
\* return fmt.Errorf("Error preparing artifacts: %s", err).
PrepareArtifactsFailed(r, e, st) == Return(r, "err", e, st)

\* prepareArtifacts: artifactsDir := archiveDir/artifacts; os.MkdirAll(artifactsDir)
\* (which creates archiveDir too when it is missing); imagesWithShasums := {}.
MkdirArtifacts(r) ==
    /\ pc[r] = "artifacts"
    /\ \E ok \in BOOLEAN :
        IF ok
        THEN /\ staging' = [ staging EXCEPT !.exists = TRUE, !.artifactsDir = TRUE ]
             /\ loc' = [ loc EXCEPT ![r] = [ NoLocals EXCEPT !.todo = DOMAIN bun[r].Images ] ]
             /\ Goto(r, "images")
        ELSE /\ PrepareArtifactsFailed(r, Err("mkdirArtifacts"), staging)
             /\ UNCHANGED loc
    /\ UNCHANGED << runs, keyring, source, ex, bun, cleanup, destFiles, logs, pulled, saved >>
    /\ UNCHANGED << loadVars, digestVars >>

ArchiveOutcomes == { "pullErr", "saveErr", "createErr", "copyErr", "ok" }

\* The error archiveImage returns for each failing step.
ArchiveErr(image, out) ==
    ImageErr(CASE out = "pullErr" -> "imagePull"
               [] out = "saveErr" -> "imageSave"
               [] out = "createErr" -> "imageCreate"
               [] out = "copyErr" -> "imageCopy", image)

\* The checksum archiveImage returns.
Checksum(out) == IF out = "ok" THEN tempchecksum ELSE ""

\* The artifacts directory after archiveImage: os.Create(artifactsDir/name)
\* then io.Copy(out, reader).
ArtifactsAfter(image, out) ==
    IF out \in { "copyErr", "ok" }
    THEN [ staging EXCEPT !.artifacts =
             [ f \in DOMAIN staging.artifacts \cup { ArtifactName(image) } |->
                 IF f = ArtifactName(image)
                 THEN [ image |-> image, complete |-> (out = "ok") ]
                 ELSE staging.artifacts[f] ] ]
    ELSE staging

\* archiveImage: Client.ImagePull, io.Copy(logs, pullLogs) (its error is
\* dropped), Client.ImageSave, os.Create, io.Copy. lw: the log write worked.
archiveImage(r, image, out, lw) ==
    /\ out \in { "copyErr", "ok" } => staging.artifactsDir
    /\ out = "pullErr" => ~lw
    /\ pulled' = [ pulled EXCEPT ![r] = Append(@, image) ]
    /\ saved' = [ saved EXCEPT ![r] = IF out = "pullErr" THEN @ ELSE Append(@, image) ]
    /\ logs' = [ logs EXCEPT ![r].text = IF lw THEN Append(@, image) ELSE @ ]

\* for key, image := range bun.Images { ... }: one iteration, in any order.
ArchiveMapImage(r) ==
    /\ pc[r] = "images"
    /\ loc[r].todo # {}
    /\ \E key \in loc[r].todo, out \in ArchiveOutcomes, lw \in BOOLEAN :
        LET image == bun[r].Images[key]
        IN  /\ archiveImage(r, image.Image, out, lw)
            /\ IF out = "ok"
               THEN /\ loc' = [ loc EXCEPT
                          ![r].todo = @ \ { key },
                          ![r].imagesWithShasums =
                              [ k \in DOMAIN @ \cup { key } |->
                                  IF k = key
                                  THEN [ image EXCEPT !.Digest = Checksum(out) ]
                                  ELSE @[k] ] ]
                    /\ staging' = ArtifactsAfter(image.Image, out)
                    /\ Goto(r, "images")
               ELSE /\ PrepareArtifactsFailed(r, ArchiveErr(image.Image, out),
                                              ArtifactsAfter(image.Image, out))
                    /\ UNCHANGED loc
    /\ UNCHANGED << runs, keyring, source, ex, bun, cleanup, destFiles >>
    /\ UNCHANGED << loadVars, digestVars >>

\* bun.Images = imagesWithShasums; invocationImagesWithShasums := []
FinishImages(r) ==
    /\ pc[r] = "images"
    /\ loc[r].todo = {}
    /\ bun' = [ bun EXCEPT ![r].Images = loc[r].imagesWithShasums ]
    /\ Goto(r, "invocation")
    /\ UNCHANGED << runs, keyring, source, ex, loc, cleanup, staging, destFiles, logs,
                    pulled, saved >>
    /\ UNCHANGED << loadVars, digestVars >>

\* for _, in := range bun.InvocationImages { ... }: one iteration.
ArchiveInvocationImage(r) ==
    /\ pc[r] = "invocation"
    /\ loc[r].idx <= Len(bun[r].InvocationImages)
    /\ \E out \in ArchiveOutcomes, lw \in BOOLEAN :
        LET in == bun[r].InvocationImages[loc[r].idx]
        IN  /\ archiveImage(r, in.Image, out, lw)
            /\ IF out = "ok"
               THEN /\ loc' = [ loc EXCEPT
                          ![r].idx = @ + 1,
                          ![r].invocationImagesWithShasums =
                              Append(@, [ in EXCEPT !.Digest = Checksum(out) ]) ]
                    /\ staging' = ArtifactsAfter(in.Image, out)
                    /\ Goto(r, "invocation")
               ELSE /\ PrepareArtifactsFailed(r, ArchiveErr(in.Image, out),
                                              ArtifactsAfter(in.Image, out))
                    /\ UNCHANGED loc
    /\ UNCHANGED << runs, keyring, source, ex, bun, cleanup, destFiles >>
    /\ UNCHANGED << loadVars, digestVars >>

\* bun.InvocationImages = invocationImagesWithShasums; return nil
FinishInvocation(r) ==
    /\ pc[r] = "invocation"
    /\ loc[r].idx > Len(bun[r].InvocationImages)
    /\ bun' = [ bun EXCEPT ![r].InvocationImages = loc[r].invocationImagesWithShasums ]
    /\ Goto(r, "writeBundle")
    /\ UNCHANGED << runs, keyring, source, ex, loc, cleanup, staging, destFiles, logs,
                    pulled, saved >>
    /\ UNCHANGED << loadVars, digestVars >>


Range(s) == { s[i] : i \in DOMAIN s }

\* writeBundle's key: kr.Keys()[0], or kr.Key(signer) when signer is given.
SigningKey(signer) == IF signer # "" THEN signer ELSE keyring[1]

\* writeBundle's checks in their order, given the step that fails by itself:
\* signature.LoadKeyRing, kr.Len() == 0, kr.Key(signer), sign.Clearsign,
\* ioutil.WriteFile (which fails when the directory is gone).
writeBundle(signer, fault) ==
    IF fault = "loadKeyRing" THEN "loadKeyRing"
    ELSE IF Len(keyring) = 0 THEN "noKeys"
    ELSE IF signer # "" /\ signer \notin Range(keyring) THEN "keyNotFound"
    ELSE IF fault = "clearsign" THEN "clearsign"
    ELSE IF fault = "writeFile" \/ ~staging.exists THEN "writeFile"
    ELSE "ok"

\* The descriptor file ioutil.WriteFile(outputFile, data, 0644) leaves: the
\* clear-signed serialization of the bundle as prepareArtifacts updated it.
SignedDescriptor(b, key) ==
    [ from |-> "writeBundle", bundle |-> b, key |-> key, complete |-> TRUE ]

\* writeBundle(bun, ex.Signer, ex.SecretKeyRing, archiveDir/bundlefile) and
\* Export's return of its error.
WriteBundle(r) ==
    /\ pc[r] = "writeBundle"
    /\ \E fault \in { "none", "loadKeyRing", "clearsign", "writeFile" } :
        LET out == writeBundle(ex[r].Signer, fault)
        IN  IF out = "ok"
            THEN /\ staging' = [ staging EXCEPT !.descriptor =
                        [ f \in DOMAIN staging.descriptor \cup { bundlefile(r) } |->
                            IF f = bundlefile(r)
                            THEN SignedDescriptor(bun[r], SigningKey(ex[r].Signer))
                            ELSE staging.descriptor[f] ] ]
                 /\ Goto(r, "dest")
            ELSE Return(r, "err", Err(out), staging)
    /\ UNCHANGED << runs, keyring, source, ex, bun, loc, cleanup, destFiles, logs, pulled, saved >>
    /\ UNCHANGED << loadVars, digestVars >>

\* The archive file right after os.Create(dest): empty.
CreatedArchive(r) == [ by |-> r, complete |-> FALSE, root |-> NoStaging ]

\* The archive file after io.Copy(writer, rc): the staging directory.
WrittenArchive(r, whole) ==
    [ by |-> r, complete |-> whole, root |-> IF whole THEN staging ELSE NoStaging ]

PutFile(files, path, content) ==
    [ f \in DOMAIN files \cup { path } |-> IF f = path THEN content ELSE files[f] ]

\* writer, err := os.Create(dest); defer writer.Close()
CreateDest(r) ==
    /\ pc[r] = "dest"
    /\ \E ok \in BOOLEAN :
        IF ok
        THEN /\ destFiles' = PutFile(destFiles, dest(r), CreatedArchive(r))
             /\ Goto(r, "tar")
             /\ UNCHANGED staging
        ELSE /\ Return(r, "err", Err("createDest"), staging)
             /\ UNCHANGED destFiles
    /\ UNCHANGED << runs, keyring, source, ex, bun, loc, cleanup, logs, pulled, saved >>
    /\ UNCHANGED << loadVars, digestVars >>

\* rc, err := archive.TarWithOptions(archiveDir, tarOptions); io.Copy(writer, rc);
\* return err. The tar stream of a directory that is gone is an error or an
\* archive of nothing, as the archiver decides.
Tar(r) ==
    /\ pc[r] = "tar"
    /\ \E out \in { "tarErr", "copyErr", "ok" } :
        CASE out = "tarErr" ->
               /\ Return(r, "err", Err("tar"), staging)
               /\ UNCHANGED destFiles
          [] out = "copyErr" ->
               /\ Return(r, "err", Err("tarCopy"), staging)
               /\ destFiles' = PutFile(destFiles, dest(r), WrittenArchive(r, FALSE))
          [] out = "ok" ->
               /\ Return(r, "ok", NoErr, staging)
               /\ destFiles' = PutFile(destFiles, dest(r), WrittenArchive(r, TRUE))
    /\ UNCHANGED << runs, keyring, source, ex, bun, loc, cleanup, logs, pulled, saved >>
    /\ UNCHANGED << loadVars, digestVars >>


ExportNext ==
    \/ \E r \in runs : CreateLog(r)
    \/ \E r \in runs : StatSource(r)
    \/ \E r \in runs : Load(r)
    \/ \E r \in runs : MkdirStaging(r)
    \/ \E r \in runs : CopyDescriptor(r)
    \/ \E r \in runs : MkdirArtifacts(r)
    \/ \E r \in runs : ArchiveMapImage(r)
    \/ \E r \in runs : FinishImages(r)
    \/ \E r \in runs : ArchiveInvocationImage(r)
    \/ \E r \in runs : FinishInvocation(r)
    \/ \E r \in runs : WriteBundle(r)
    \/ \E r \in runs : CreateDest(r)
    \/ \E r \in runs : Tar(r)

\* No Export call exists.
ExportIdle ==
    /\ runs = {}
    /\ keyring = <<>>
    /\ source = NoBundle
    /\ ex = EmptyMap /\ pc = EmptyMap /\ bun = EmptyMap /\ loc = EmptyMap
    /\ cleanup = EmptyMap /\ ret = EmptyMap /\ logs = EmptyMap
    /\ pulled = EmptyMap /\ saved = EmptyMap
    /\ staging = NoStaging
    /\ destFiles = EmptyMap

\* -------------------------------------------------------------- loadBundle
\* The keys that sign bundles and that a verifying key ring may hold.
Keys == { "k1", "k2" }

\* A bundle file: whether it can be read, whether it holds a signature block,
\* the key that signed it, whether the signature matches the content, and
\* whether the embedded descriptor is well-formed JSON.
BundleFiles ==
    [ readable : BOOLEAN, signed : BOOLEAN, signer : Keys, intact : BOOLEAN, json : BOOLEAN ]

LoadInputs ==
    [ insecure : BOOLEAN, keyringOk : BOOLEAN, trusted : SUBSET Keys, file : BundleFiles ]

\* The message loadBundle compares the loader's error with.
NoSignatureBlock == "no signature block in data"

\* ErrNotSigned = errors.New("bundle is not signed")
ErrNotSigned == [ kind |-> "ErrNotSigned", msg |-> "bundle is not signed" ]

Nil == [ kind |-> "nil", msg |-> "" ]

\* fmt.Errorf(format, cause)
Errorf(prefix, cause) == [ kind |-> "error", msg |-> << prefix, cause >> ]

\* SecureLoader.Load: read the file, find the clear-signed envelope, verify
\* the signature against the key ring (one recognized key is enough), parse the
\* embedded descriptor. Returns the error's message, "" for none.
SecureLoad(trusted, file) ==
    IF ~file.readable THEN "cannot read file"
    ELSE IF ~file.signed THEN NoSignatureBlock
    ELSE IF ~file.intact \/ file.signer \notin trusted THEN "invalid signature"
    ELSE IF ~file.json THEN "malformed descriptor"
    ELSE ""

\* DetectingLoader.Load: parse the descriptor without verifying a signature.
DetectingLoad(file) ==
    IF ~file.readable THEN "cannot read file"
    ELSE IF ~file.json THEN "malformed descriptor"
    ELSE ""

\* getLoader(home, insecure): the loader, or the key ring's load error.
getLoader(in) ==
    IF in.insecure THEN [ load |-> "detecting", err |-> Nil ]
    ELSE IF ~in.keyringOk
         THEN [ load |-> "none", err |-> Errorf("cannot securely load bundle", "keyring") ]
         ELSE [ load |-> "secure", err |-> Nil ]

\* l.Load(bundleFile) for the loader getLoader chose.
LoaderLoad(load, in) ==
    IF load = "secure" THEN SecureLoad(in.trusted, in.file) ELSE DetectingLoad(in.file)

\* Every error of the loader reported as ErrNotSigned.
loadBundleAlwaysNotSigned(in) ==
    LET l == getLoader(in)
    IN  IF l.err # Nil THEN l.err
        ELSE IF LoaderLoad(l.load, in) # "" THEN ErrNotSigned ELSE Nil

\* loadBundle(bundleFile, insecure): the error it returns.
loadBundle(in) ==
    LET l == getLoader(in)
    IN  IF l.err # Nil THEN l.err
        ELSE LET err == LoaderLoad(l.load, in)
             IN  IF err # ""
                 THEN IF err = NoSignatureBlock
                      THEN ErrNotSigned
                      ELSE Errorf(IF in.insecure THEN "cannot load insecure bundle"
                                  ELSE "cannot load secure bundle", err)
                 ELSE Nil

LoadIdle ==
    /\ lbIn = [ insecure |-> FALSE, keyringOk |-> TRUE, trusted |-> {},
                file |-> [ readable |-> FALSE, signed |-> FALSE, signer |-> "k1",
                           intact |-> FALSE, json |-> FALSE ] ]
    /\ lbOut = [ called |-> FALSE, err |-> Nil ]

InitLoad ==
    /\ lbIn \in LoadInputs
    /\ lbOut = [ called |-> FALSE, err |-> Nil ]

LoadBundle ==
    /\ ~lbOut.called
    /\ lbOut' = [ called |-> TRUE, err |-> loadBundle(lbIn) ]
    /\ UNCHANGED << lbIn, exportVars, digestVars >>

\* --------------------------------------------------------- Digester.Digest
\* Largest number of Digest calls of one Digester.
MaxDigestCalls == 4

DigestIdle ==
    /\ dgImage = <<>>
    /\ dgPc = "idle" /\ dgReader = <<>> /\ dgErr = "nil" /\ dgDefer = FALSE
    /\ dgOpen = {} /\ dgCalls = 0
    /\ dgRet = [ digest |-> <<>>, err |-> "nil" ]

InitDigest ==
    /\ dgImage \in Refs
    /\ dgPc = "idle" /\ dgReader = <<>> /\ dgErr = "nil" /\ dgDefer = FALSE
    /\ dgOpen = {} /\ dgCalls = 0
    /\ dgRet = [ digest |-> <<>>, err |-> "nil" ]

\* reader, err := d.Client.ImageSave(d.Context, []string{d.Image}); err is
\* not looked at. A successful ImageSave opens a stream.
DigestImageSave ==
    /\ dgPc = "idle"
    /\ dgCalls < MaxDigestCalls
    /\ dgCalls' = dgCalls + 1
    /\ dgDefer' = FALSE
    /\ \E ok \in BOOLEAN :
        IF ok
        THEN /\ dgReader' = << dgCalls + 1 >>
             /\ dgErr' = "nil"
             /\ dgOpen' = dgOpen \cup { dgCalls + 1 }
        ELSE /\ dgReader' = <<>>
             /\ dgErr' = "imageSave"
             /\ UNCHANGED dgOpen
    /\ dgPc' = "fromReader"
    /\ UNCHANGED << dgImage, dgRet, exportVars, loadVars >>

\* The streams open after Digest's deferred calls ran.
DigestDeferred(registered, open) == IF registered THEN open \ Range(dgReader) ELSE open

\* computedDigest, err := digest.Canonical.FromReader(reader); if err != nil
\* { return "", err }; defer reader.Close(); return computedDigest.String(), nil.
\* Reading a nil reader panics.
DigestFromReader ==
    /\ dgPc = "fromReader"
    /\ \E ok \in BOOLEAN :
        IF dgReader = <<>>
        THEN /\ ok
             /\ dgPc' = "panicked"
             /\ dgRet' = [ digest |-> <<>>, err |-> "panic" ]
             /\ dgOpen' = DigestDeferred(FALSE, dgOpen)
             /\ UNCHANGED << dgErr, dgDefer >>
        ELSE IF ~ok
        THEN /\ dgErr' = "fromReader"
             /\ dgRet' = [ digest |-> <<>>, err |-> "fromReader" ]
             /\ dgOpen' = DigestDeferred(FALSE, dgOpen)
             /\ dgPc' = "idle"
             /\ UNCHANGED dgDefer
        ELSE /\ dgErr' = "nil"
             /\ dgDefer' = TRUE
             /\ dgRet' = [ digest |-> << "sha256" >> \o dgImage, err |-> "nil" ]
             /\ dgOpen' = DigestDeferred(TRUE, dgOpen)
             /\ dgPc' = "idle"
    /\ UNCHANGED << dgImage, dgReader, dgCalls, exportVars, loadVars >>

\* ---------------------------------------------------------- specifications
\* One Export call.
Init == InitExport({ 1 }, Bundles, Exporters) /\ LoadIdle /\ DigestIdle

Next == ExportNext

Spec == Init /\ [][Next]_vars

\* Two Export calls of the same bundle in the same working directory.
ConcBundles ==
    { b \in Bundles :
        /\ Cardinality(DOMAIN b.Images) + Len(b.InvocationImages) = 1
        /\ \A k \in DOMAIN b.Images : b.Images[k].Image = << "c" >>
        /\ \A i \in DOMAIN b.InvocationImages : b.InvocationImages[i].Image = << "c" >> }

ConcExporters == { x \in Exporters : ~x.Unsigned /\ x.Signer = "" }

InitConc == InitExport({ 1, 2 }, ConcBundles, ConcExporters) /\ LoadIdle /\ DigestIdle

SpecConc == InitConc /\ [][ExportNext]_vars

\* One loadBundle call.
InitLoadBundle == ExportIdle /\ InitLoad /\ DigestIdle

SpecLoad == InitLoadBundle /\ [][LoadBundle]_vars

\* The Digest calls of one Digester.
InitDigester == ExportIdle /\ LoadIdle /\ InitDigest

NextDigest == DigestImageSave \/ DigestFromReader

SpecDigest == InitDigester /\ [][NextDigest]_vars


\* ------------------------------------------------------------------ claims
\* The image references of a bundle, and how many there are.
ReferencesOf(b) ==
    { b.Images[k].Image : k \in DOMAIN b.Images }
        \cup { b.InvocationImages[i].Image : i \in DOMAIN b.InvocationImages }

NumReferences(b) == Cardinality(DOMAIN b.Images) + Len(b.InvocationImages)

\* The images a bundle value holds, map entries and invocation images alike.
ImagesOf(b) ==
    { b.Images[k] : k \in DOMAIN b.Images }
        \cup { b.InvocationImages[i] : i \in DOMAIN b.InvocationImages }

Succeeded(r) == pc[r] = "done" /\ ret[r].result = "ok"

\* The staging directory as the archive Export wrote holds it.
Archived(r) == destFiles[dest(r)].root

\* C1: a successful thin Export archives exactly the descriptor file and no
\* artifacts directory; a successful thick Export of a bundle with N image
\* references archives exactly N files under artifacts/, one per reference,
\* named buildFileName(reference) + ".tar". N counts the distinct references.
C1_ArchiveContents ==
    \A r \in runs :
        Succeeded(r) =>
            /\ DOMAIN Archived(r).descriptor = { bundlefile(r) }
            /\ IF ex[r].Thin
               THEN /\ ~Archived(r).artifactsDir
                    /\ DOMAIN Archived(r).artifacts = {}
               ELSE /\ Cardinality(DOMAIN Archived(r).artifacts)
                         = Cardinality(ReferencesOf(source))
                    /\ DOMAIN Archived(r).artifacts
                         = { ArtifactName(ref) : ref \in ReferencesOf(source) }

\* C2: an image is pulled or saved only after Loader.Load returned the bundle,
\* and a run whose Loader.Load failed has returned an error without pulling
\* or saving any image.
C2_NoFetchBeforeLoad ==
    \A r \in runs :
        /\ (pulled[r] # <<>> \/ saved[r] # <<>>) =>
              /\ bun[r] # NoBundle
              /\ pc[r] \notin { "start", "stat", "load" }
        /\ ret[r].err.site = "load" =>
              /\ pc[r] = "done" /\ ret[r].result = "err"
              /\ pulled[r] = <<>> /\ saved[r] = <<>>

\* C2 witness: a run loaded its bundle and pulled and saved an image.
C2_Witness == \E r \in runs : pulled[r] # <<>> /\ saved[r] # <<>> /\ bun[r] = source

\* C3: when an Export that created the staging directory returns, by
\* whichever exit and whatever another run does meanwhile, the directory does
\* not exist as it returns.
C3_StagingRemoved ==
    [][ \A r \in runs :
          (cleanup[r] /\ pc[r] # "done" /\ pc'[r] = "done") => staging' = NoStaging ]_vars

\* C3 witness: an Export that created the staging directory and wrote an
\* artifact into it returned with success.
C3_Witness ==
    \E r \in runs : cleanup[r] /\ Succeeded(r) /\ Archived(r).artifacts # EmptyMap

ImageSites == { "imagePull", "imageSave", "imageCreate", "imageCopy" }

\* The images prepareArtifacts has archived so far.
NumArchived(r) ==
    Cardinality(DOMAIN loc[r].imagesWithShasums) + Len(loc[r].invocationImagesWithShasums)

\* C4: in a thick Export, when the pull, the save or the write of one image
\* fails, Export has returned an error, that image is the last one touched
\* (the images before it were archived once each, none after it), the run
\* created no destination file and the staging directory is gone.
C4_ImageFailureAborts ==
    \A r \in runs :
        ret[r].err.site \in ImageSites =>
            /\ pc[r] = "done" /\ ret[r].result = "err"
            /\ ~ex[r].Thin
            /\ Len(pulled[r]) = NumArchived(r) + 1
            /\ pulled[r][Len(pulled[r])] = ret[r].err.image
            /\ dest(r) \notin DOMAIN destFiles
            /\ staging = NoStaging

\* C4 witness: the first of two images failed after its pull.
C4_Witness ==
    \E r \in runs :
        /\ ret[r].err.site \in { "imageSave", "imageCreate", "imageCopy" }
        /\ NumReferences(source) = 2
        /\ Len(pulled[r]) = 1

\* The loader fails for want of a signature block: the secure loader was
\* built, the file was read, and it holds no signature block.
NoSignatureCase(in) ==
    ~in.insecure /\ in.keyringOk /\ in.file.readable /\ ~in.file.signed

\* The secure loader fails on a signed file: the signature does not match or
\* no trusted key made it, or the descriptor inside is malformed.
SignedFailureCase(in) ==
    /\ ~in.insecure /\ in.keyringOk /\ in.file.readable /\ in.file.signed
    /\ (~in.file.intact \/ in.file.signer \notin in.trusted \/ ~in.file.json)

\* C5: loadBundle returns ErrNotSigned exactly when the loader failed for want
\* of a signature block; a failure on a signed file (bad signature, untrusted
\* key, malformed descriptor) is returned as another error.
C5_NotSignedDistinct ==
    lbOut.called =>
        /\ (lbOut.err = ErrNotSigned) <=> NoSignatureCase(lbIn)
        /\ SignedFailureCase(lbIn) => lbOut.err.kind = "error"

\* C5 witness: the secure load of a file signed by a key absent from the key
\* ring has returned.
C5_Witness ==
    /\ lbOut.called
    /\ ~lbIn.insecure /\ lbIn.keyringOk /\ lbIn.file.readable /\ lbIn.file.signed
    /\ lbIn.file.intact /\ lbIn.file.signer \notin lbIn.trusted

\* C6: with a key ring of zero keys, a thick Export fails at signing before
\* any descriptor or artifact file is written and before any image is
\* fetched, and it never succeeds.
C6_EmptyKeyringFailsFirst ==
    \A r \in runs :
        (Len(keyring) = 0 /\ ~ex[r].Thin) =>
            /\ staging.descriptor = EmptyMap
            /\ staging.artifacts = EmptyMap
            /\ pulled[r] = <<>>
            /\ ~Succeeded(r)

HasDigests(b) == \A image \in ImagesOf(b) : image.Digest # ""

\* C7 as stated: after any successful Export every image of the bundle in
\* memory and of the archived descriptor carries a non-empty digest.
C7_AllExportsHaveDigests ==
    \A r \in runs :
        Succeeded(r) =>
            /\ HasDigests(bun[r])
            /\ HasDigests(Archived(r).descriptor[bundlefile(r)].bundle)

\* C7 amended: after a successful thick Export every image of the bundle in
\* memory and of the archived descriptor carries a non-empty digest, and every
\* digest prepareArtifacts records is non-empty.
C7_ThickExportHasDigests ==
    \A r \in runs :
        /\ \A k \in DOMAIN loc[r].imagesWithShasums :
              loc[r].imagesWithShasums[k].Digest # ""
        /\ \A i \in DOMAIN loc[r].invocationImagesWithShasums :
              loc[r].invocationImagesWithShasums[i].Digest # ""
        /\ (Succeeded(r) /\ ~ex[r].Thin) =>
              /\ HasDigests(bun[r])
              /\ HasDigests(Archived(r).descriptor[bundlefile(r)].bundle)

\* C7 witness: a thick Export of a bundle with an image and an invocation
\* image succeeded.
C7_Witness ==
    \E r \in runs :
        /\ Succeeded(r) /\ ~ex[r].Thin
        /\ source.Images # EmptyMap /\ source.InvocationImages # <<>>

\* C8: the log file never decides the outcome: Export never returns an error
\* that comes from creating or writing the log file.
C8_LogNeverGates == \A r \in runs : ret[r].err.site # "log"

\* A run holds the staging directory: it created it and has not returned.
InStaging(r) == cleanup[r] /\ pc[r] # "done"

\* C9: of two overlapping runs of the same bundle name and version, the one
\* that finds the staging directory present aborts: no two runs hold the
\* staging directory at once.
C9_CollisionDetected ==
    \A r1 \in runs, r2 \in runs : (r1 # r2) => ~(InStaging(r1) /\ InStaging(r2))

\* C10: when no Digest call is running, every stream that ImageSave opened
\* has been closed.
C10_StreamReleased == dgPc \in { "idle", "panicked" } => dgOpen = {}

====
